---- MODULE Spec2Model ----
(***************************************************************************)
(* Character-level Huffman encoder (src/huffman_commands.c).               *)
(*                                                                         *)
(* The model follows build_char_codes step by step (leaf scan, merge loop, *)
(* code-assignment traversal, free) and then encode_command and            *)
(* print_command_bits on one command string.                               *)
(*                                                                         *)
(* Scaling.  The source has 256 symbols and 64-bit unsigned long words.    *)
(* The model keeps the arithmetic and scales the sizes: NUM_CHARS symbols, *)
(* a code word of MAX_CODE_LEN bits (so `code << 1` drops the bit above    *)
(* it), a frequency word of FreqBits bits (so `a->freq + b->freq` wraps at *)
(* 2^FreqBits) and a traversal stack of MAX_CODE_LEN * 2 frames.  The two  *)
(* words are scaled separately to keep a relation of the source: a table   *)
(* whose total fits the frequency word can still give a leaf deeper than   *)
(* the code word is wide (64-bit: Fibonacci-like counts of 70 symbols sum  *)
(* to less than 2^50 and give code length 69).                             *)
(***************************************************************************)
EXTENDS Integers, Sequences, FiniteSets, TLC

\* ---------------------------------------------------------------- bounds
\* number of symbols of the scaled alphabet (NUM_CHARS)
MaxSyms == 5
\* width in bits of the scaled code word (MAX_CODE_LEN, unsigned long code)
CodeBits == 2
\* width in bits of the scaled frequency word (unsigned long freq)
FreqBits == 3
\* largest number of characters of an input string set (its table's total)
MaxTotal == 7
\* longest command string handed to encode_command
MaxCmdLen == 3

\* ------------------------------------------------------------- constants
NUM_CHARS == MaxSyms
MAX_CODE_LEN == CodeBits
\* StackFrame stack[MAX_CODE_LEN * 2]
STACK_CAP == MAX_CODE_LEN * 2
\* NULL child pointer
NULL == 0

RECURSIVE Pow2(_)
Pow2(n) == IF n = 0 THEN 1 ELSE 2 * Pow2(n - 1)

\* unsigned long arithmetic of the frequency word
FreqMod == Pow2(FreqBits)
\* unsigned long arithmetic of the code word
CodeMod == Pow2(CodeBits)

Symbols == 0 .. (NUM_CHARS - 1)
\* characters a C string can hold: every byte but the terminating NUL
Chars == 1 .. (NUM_CHARS - 1)

VARIABLES
  freq,        \* the table handed to build_char_codes
  char_codes,  \* static CodeEntry char_codes[NUM_CHARS]
  nodes,       \* the malloc'ed Nodes, in allocation order; a pointer is an index
  heap,        \* heap[0 .. heap_size-1], as a sequence of node pointers
  pc,          \* position in main / build_char_codes
  c,           \* loop index of the leaf scan
  n_used,
  a, b,        \* the two nodes popped by the current merge iteration
  root,
  stack,       \* stack[0 .. sp-1] of the traversal
  cmd,         \* the string being encoded
  out_bits, out_bytes, ret,   \* encode_command's results
  printed      \* what print_command_bits wrote, as a sequence of bits

vars == <<freq, char_codes, nodes, heap, pc, c, n_used, a, b, root, stack,
          cmd, out_bits, out_bytes, ret, printed>>

heap_size == Len(heap)
sp == Len(stack)

\* --------------------------------------------------------------- the heap
\* heap[i] of the source is h[i + 1] here; ns is the node store.
FreqOf(ns, n) == ns[n].freq

HeapSwap(h, i, j) ==
  [h EXCEPT ![i + 1] = h[j + 1], ![j + 1] = h[i + 1]]

\* heap_up with the sift-up loop left out
HeapUp_NoSift(ns, h, i) == h

RECURSIVE HeapUp(_, _, _)
HeapUp(ns, h, i) ==
  IF i > 0
  THEN LET p == (i - 1) \div 2
       IN IF FreqOf(ns, h[p + 1]) <= FreqOf(ns, h[i + 1])
          THEN h
          ELSE HeapUp(ns, HeapSwap(h, p, i), p)
  ELSE h

\* heap_down that never looks at the right child
RECURSIVE HeapDown_LeftOnly(_, _, _)
HeapDown_LeftOnly(ns, h, i) ==
  LET l == 2 * i + 1
      smallest == IF l < Len(h) /\ FreqOf(ns, h[l + 1]) < FreqOf(ns, h[i + 1])
                  THEN l ELSE i
  IN IF smallest = i
     THEN h
     ELSE HeapDown_LeftOnly(ns, HeapSwap(h, i, smallest), smallest)

RECURSIVE HeapDown(_, _, _)
HeapDown(ns, h, i) ==
  LET l == 2 * i + 1
      r == 2 * i + 2
      s1 == IF l < Len(h) /\ FreqOf(ns, h[l + 1]) < FreqOf(ns, h[i + 1])
            THEN l ELSE i
      smallest == IF r < Len(h) /\ FreqOf(ns, h[r + 1]) < FreqOf(ns, h[s1 + 1])
                  THEN r ELSE s1
  IN IF smallest = i
     THEN h
     ELSE HeapDown(ns, HeapSwap(h, i, smallest), smallest)

\* heap[heap_size++] = n; heap_up(heap_size - 1)
HeapPush(ns, h, n) == HeapUp(ns, Append(h, n), Len(h))

\* top = heap[0]
HeapTop(h) == h[1]

\* heap_pop without the heap_down(0) call
HeapAfterPop_NoSift(ns, h) ==
  LET last == h[Len(h)]
      cut == SubSeq(h, 1, Len(h) - 1)
  IN IF Len(cut) > 0 THEN [cut EXCEPT ![1] = last] ELSE cut

\* heap[0] = heap[--heap_size]; if (heap_size > 0) heap_down(0)
HeapAfterPop(ns, h) ==
  LET last == h[Len(h)]
      cut == SubSeq(h, 1, Len(h) - 1)
  IN IF Len(cut) > 0
     THEN HeapDown(ns, [cut EXCEPT ![1] = last], 0)
     ELSE cut

\* ------------------------------------------------------ count_char_freq
RECURSIVE CountIn(_, _)
CountIn(s, ch) ==
  IF s = <<>> THEN 0
  ELSE (IF Head(s) = ch THEN 1 ELSE 0) + CountIn(Tail(s), ch)

RECURSIVE CountAll(_, _)
CountAll(cmds, ch) ==
  IF cmds = <<>> THEN 0
  ELSE CountIn(Head(cmds), ch) + CountAll(Tail(cmds), ch)

\* freq[c] = 0 for all c, then freq[(unsigned char)*p]++ per character
count_char_freq(cmds) ==
  [s \in Symbols |-> CountAll(cmds, s) % FreqMod]

\* ------------------------------------------------------------ initial states
ZeroCodes == [s \in Symbols |-> [code |-> 0, len |-> 0]]

RECURSIVE SumTable(_, _)
SumTable(f, n) == IF n < 0 THEN 0 ELSE f[n] + SumTable(f, n - 1)

\* the tables count_char_freq yields for string sets of at most MaxTotal
\* characters: no NUL is ever counted, and the total fits the word
StringTables ==
  {f \in [Symbols -> 0 .. MaxTotal] :
     f[0] = 0 /\ SumTable(f, NUM_CHARS - 1) <= MaxTotal}

\* every table of machine words
WordTables == [Symbols -> 0 .. (FreqMod - 1)]

InitRest ==
  /\ char_codes = ZeroCodes
  /\ nodes = <<>>
  /\ heap = <<>>
  /\ pc = "scan"
  /\ c = 0
  /\ n_used = 0
  /\ a = NULL
  /\ b = NULL
  /\ root = NULL
  /\ stack = <<>>
  /\ cmd = <<>>
  /\ out_bits = 0
  /\ out_bytes = 0
  /\ ret = 0
  /\ printed = <<>>

Init == freq \in StringTables /\ InitRest

InitWords == freq \in WordTables /\ InitRest

\* -------------------------------------------------------- build_char_codes
Leaf(s, f) == [symbol |-> s, freq |-> f, left |-> NULL, right |-> NULL]

Internal(ns, x, y) ==
  [symbol |-> -1, freq |-> (FreqOf(ns, x) + FreqOf(ns, y)) % FreqMod,
   left |-> x, right |-> y]

\* one iteration of the scan over c = 0 .. NUM_CHARS-1
ScanSymbol ==
  /\ pc = "scan"
  /\ c < NUM_CHARS
  /\ char_codes' = [char_codes EXCEPT ![c] = [code |-> 0, len |-> 0]]
  /\ IF freq[c] = 0
     THEN UNCHANGED <<nodes, heap, n_used>>
     ELSE LET ns == Append(nodes, Leaf(c, freq[c]))
          IN /\ nodes' = ns
             /\ heap' = HeapPush(ns, heap, Len(ns))
             /\ n_used' = n_used + 1
  /\ c' = c + 1
  /\ UNCHANGED <<freq, pc, a, b, root, stack, cmd, out_bits, out_bytes, ret, printed>>

\* the scan is over: if (n_used == 0) return;
ScanDone ==
  /\ pc = "scan"
  /\ c = NUM_CHARS
  /\ pc' = IF n_used = 0 THEN "done" ELSE "merge"
  /\ UNCHANGED <<freq, char_codes, nodes, heap, c, n_used, a, b, root, stack,
                 cmd, out_bits, out_bytes, ret, printed>>

\* while (heap_size > 1) { Node *a = heap_pop();
MergePopA ==
  /\ pc = "merge"
  /\ heap_size > 1
  /\ a' = HeapTop(heap)
  /\ heap' = HeapAfterPop(nodes, heap)
  /\ pc' = "popb"
  /\ UNCHANGED <<freq, char_codes, nodes, c, n_used, b, root, stack,
                 cmd, out_bits, out_bytes, ret, printed>>

\* Node *b = heap_pop();
MergePopB ==
  /\ pc = "popb"
  /\ b' = HeapTop(heap)
  /\ heap' = HeapAfterPop(nodes, heap)
  /\ pc' = "pushp"
  /\ UNCHANGED <<freq, char_codes, nodes, c, n_used, a, root, stack,
                 cmd, out_bits, out_bytes, ret, printed>>

\* p = malloc; p->freq = a->freq + b->freq; left = a; right = b; heap_push(p); }
MergePush ==
  /\ pc = "pushp"
  /\ LET ns == Append(nodes, Internal(nodes, a, b))
     IN /\ nodes' = ns
        /\ heap' = HeapPush(ns, heap, Len(ns))
  /\ pc' = "merge"
  /\ UNCHANGED <<freq, char_codes, c, n_used, a, b, root, stack,
                 cmd, out_bits, out_bytes, ret, printed>>

Frame(n, code, len) == [n |-> n, code |-> code, len |-> len]

\* root = heap_pop(); stack[0] = {root, 0, 0}; sp = 1
PopRoot ==
  /\ pc = "merge"
  /\ heap_size <= 1
  /\ root' = HeapTop(heap)
  /\ heap' = HeapAfterPop(nodes, heap)
  /\ stack' = <<Frame(HeapTop(heap), 0, 0)>>
  /\ pc' = "dfs"
  /\ UNCHANGED <<freq, char_codes, nodes, c, n_used, a, b,
                 cmd, out_bits, out_bytes, ret, printed>>

\* (f.code << 1) | bit in the code word
ShiftIn(code, bit) == (2 * code + bit) % CodeMod

\* the frames one iteration pushes for an internal node: right, then left
Pushed(f) ==
  LET nd == nodes[f.n]
      r == IF nd.right # NULL
           THEN <<Frame(nd.right, ShiftIn(f.code, 1), f.len + 1)>> ELSE <<>>
      l == IF nd.left # NULL
           THEN <<Frame(nd.left, ShiftIn(f.code, 0), f.len + 1)>> ELSE <<>>
  IN r \o l

\* one iteration of while (sp > 0).  A frame written at stack[STACK_CAP] or
\* beyond is a write past the array: undefined behaviour, after which the
\* run is in no defined state (pc = "undefined", with the frames it tried
\* to hold left in stack for inspection).
DfsStep ==
  /\ pc = "dfs"
  /\ sp > 0
  /\ LET f == stack[sp]
         rest == SubSeq(stack, 1, sp - 1)
     IN IF nodes[f.n].symbol >= 0
        THEN /\ char_codes' = [char_codes EXCEPT
                                 ![nodes[f.n].symbol] = [code |-> f.code, len |-> f.len]]
             /\ stack' = rest
             /\ pc' = "dfs"
        ELSE /\ stack' = rest \o Pushed(f)
             /\ pc' = IF Len(rest \o Pushed(f)) > STACK_CAP THEN "undefined" ELSE "dfs"
             /\ UNCHANGED char_codes
  /\ UNCHANGED <<freq, nodes, heap, c, n_used, a, b, root,
                 cmd, out_bits, out_bytes, ret, printed>>

\* the traversal is over; the tree is still allocated
DfsDone ==
  /\ pc = "dfs"
  /\ sp = 0
  /\ pc' = "free"
  /\ UNCHANGED <<freq, char_codes, nodes, heap, c, n_used, a, b, root, stack,
                 cmd, out_bits, out_bytes, ret, printed>>

\* the "Free tree" block: every node reachable from root is freed
FreeTree ==
  /\ pc = "free"
  /\ nodes' = <<>>
  /\ root' = NULL
  /\ a' = NULL
  /\ b' = NULL
  /\ pc' = "done"
  /\ UNCHANGED <<freq, char_codes, heap, c, n_used, stack,
                 cmd, out_bits, out_bytes, ret, printed>>

NextBuild ==
  \/ ScanSymbol
  \/ ScanDone
  \/ MergePopA
  \/ MergePopB
  \/ MergePush
  \/ PopRoot
  \/ DfsStep
  \/ DfsDone
  \/ FreeTree

\* ---------------------------------------------------------- encode_command
\* the command strings: C strings of at most MaxCmdLen characters
CmdStrings == UNION {[1 .. n -> Chars] : n \in 0 .. MaxCmdLen}

\* encode_command with `bits = len` for `bits += len`
RECURSIVE EncodeBits_Overwrite(_, _, _)
EncodeBits_Overwrite(cc, s, acc) ==
  IF s = <<>> THEN acc
  ELSE EncodeBits_Overwrite(cc, Tail(s), cc[Head(s)].len)

\* for (p = cmd; *p; p++) bits += char_codes[c].len;  (bits starts at acc)
RECURSIVE EncodeBits(_, _, _)
EncodeBits(cc, s, acc) ==
  IF s = <<>> THEN acc
  ELSE EncodeBits(cc, Tail(s), acc + cc[Head(s)].len)

\* *out_bytes = (bits + 7) / 8
EncodeBytes(bits) == (bits + 7) \div 8

\* main's call encode_command(cmd, &bits, &bytes): it always returns
EncodeCommand ==
  /\ pc = "done"
  /\ \E s \in CmdStrings :
       /\ cmd' = s
       /\ out_bits' = EncodeBits(char_codes, s, 0)
       /\ out_bytes' = EncodeBytes(EncodeBits(char_codes, s, 0))
       /\ ret' = EncodeBits(char_codes, s, 0)
  /\ printed' = <<>>
  /\ pc' = "print"
  /\ UNCHANGED <<freq, char_codes, nodes, heap, c, n_used, a, b, root, stack>>

\* ------------------------------------------------------ print_command_bits
\* (code >> i) & 1.  A shift by the word's width or more is undefined
\* behaviour: the bit printed may be either.
BitOutcomes(code, i) ==
  IF i < CodeBits THEN {(code \div Pow2(i)) % 2} ELSE {0, 1}

\* for (i = len - 1; i >= 0; i--) putchar(...), from bit i down
RECURSIVE CharPrints(_, _)
CharPrints(code, i) ==
  IF i < 0 THEN {<<>>}
  ELSE {<<bt>> \o t : bt \in BitOutcomes(code, i), t \in CharPrints(code, i - 1)}

\* for (p = cmd; *p; p++) print the character's code
RECURSIVE CmdPrints(_, _)
CmdPrints(cc, s) ==
  IF s = <<>> THEN {<<>>}
  ELSE {x \o y : x \in CharPrints(cc[Head(s)].code, cc[Head(s)].len - 1),
                 y \in CmdPrints(cc, Tail(s))}

\* main's call print_command_bits(cmd)
PrintCommandBits ==
  /\ pc = "print"
  /\ printed' \in CmdPrints(char_codes, cmd)
  /\ pc' = "printed"
  /\ UNCHANGED <<freq, char_codes, nodes, heap, c, n_used, a, b, root, stack,
                 cmd, out_bits, out_bytes, ret>>

\* the end of one iteration of main's loop over the commands: bits, bytes
\* and cmd are locals of the iteration, the line written is complete
NextCommand ==
  /\ pc = "printed"
  /\ cmd' = <<>>
  /\ out_bits' = 0
  /\ out_bytes' = 0
  /\ ret' = 0
  /\ printed' = <<>>
  /\ pc' = "done"
  /\ UNCHANGED <<freq, char_codes, nodes, heap, c, n_used, a, b, root, stack>>

Next ==
  \/ NextBuild
  \/ EncodeCommand
  \/ PrintCommandBits
  \/ NextCommand

\* build_char_codes and the encoder on the tables of string sets
Spec == Init /\ [][Next]_vars

\* build_char_codes on every table of machine words
SpecWords == InitWords /\ [][NextBuild]_vars
\* ================================================================ claims
Used == {s \in Symbols : freq[s] # 0}
Coded == {s \in Symbols : char_codes[s].len > 0}

\* build_char_codes has returned and main is between two commands;
\* char_codes never changes afterwards
BuildReturned == pc = "done"

\* a table entry read as a bit string of its recorded length, most
\* significant bit first
BitsOf(e) == [k \in 1 .. e.len |-> (e.code \div Pow2(e.len - k)) % 2]

IsPrefix(x, y) == Len(x) <= Len(y) /\ SubSeq(y, 1, Len(x)) = x

\* the leaves of the tree and each node's path from the root (0 = left edge,
\* 1 = right edge), read off the tree itself
LeafNodes == {n \in 1 .. Len(nodes) : nodes[n].symbol >= 0}

ParentOf(n) ==
  CHOOSE q \in 1 .. Len(nodes) : nodes[q].left = n \/ nodes[q].right = n

RECURSIVE PathBits(_)
PathBits(n) ==
  IF n = root THEN <<>>
  ELSE PathBits(ParentOf(n)) \o <<IF nodes[ParentOf(n)].right = n THEN 1 ELSE 0>>

RECURSIVE BitsValue(_)
BitsValue(bs) ==
  IF bs = <<>> THEN 0
  ELSE 2 * BitsValue(SubSeq(bs, 1, Len(bs) - 1)) + bs[Len(bs)]

\* C1: after build_char_codes, no code of a symbol with length > 0 is a
\* bit-prefix of the code of another such symbol.
C1_PrefixFree ==
  BuildReturned =>
    \A x \in Coded : \A y \in Coded :
      x # y => ~IsPrefix(BitsOf(char_codes[x]), BitsOf(char_codes[y]))

\* ---- C2
\* the length assignments for which a prefix-free code exists (Kraft's
\* inequality, sum of 2^-l <= 1), with lengths up to NUM_CHARS
RECURSIVE KraftSum(_, _, _)
KraftSum(l, S, top) ==
  IF S = {} THEN 0
  ELSE LET s == CHOOSE x \in S : TRUE
       IN Pow2(top - l[s]) + KraftSum(l, S \ {s}, top)

PrefixFreeLengths(l) == KraftSum(l, Used, NUM_CHARS) <= Pow2(NUM_CHARS)

RECURSIVE WeightedLength(_, _)
WeightedLength(l, S) ==
  IF S = {} THEN 0
  ELSE LET s == CHOOSE x \in S : TRUE
       IN freq[s] * l[s] + WeightedLength(l, S \ {s})

CodeLengths == [s \in Used |-> char_codes[s].len]

\* C2: the code lengths build_char_codes produces are a prefix-free length
\* assignment of least weighted length sum(freq * len) among all prefix-free
\* length assignments for the symbols of nonzero frequency.
C2_Optimal ==
  BuildReturned =>
    /\ PrefixFreeLengths(CodeLengths)
    /\ \A l \in [Used -> 0 .. NUM_CHARS] :
         PrefixFreeLengths(l) =>
           WeightedLength(CodeLengths, Used) <= WeightedLength(l, Used)

C2_Witness ==
  /\ BuildReturned
  /\ Cardinality(Used) = 4
  /\ \E s \in Used : char_codes[s].len = 3
  /\ \E s \in Used : char_codes[s].len = 1

\* C3: when exactly one symbol has nonzero frequency, it gets code length 1
\* and code value 0.
C3_SingleSymbol ==
  (BuildReturned /\ Cardinality(Used) = 1) =>
    \A s \in Used : char_codes[s] = [code |-> 0, len |-> 1]

\* C4: encode_command never returns a bit count for a string holding a
\* character whose code length is 0 (it fails with UnknownSymbol instead).
C4_UnknownSymbol ==
  pc = "print" => \A i \in 1 .. Len(cmd) : char_codes[cmd[i]].len > 0

\* C5: construction never goes through with a leaf deeper than MAX_CODE_LEN
\* (it aborts with CodeOverflow), and every recorded code value is the whole
\* value of the leaf's path, no high-order bit lost.
C5_NoSilentOverflow ==
  pc = "free" =>
    \A n \in LeafNodes :
      /\ Len(PathBits(n)) <= MAX_CODE_LEN
      /\ char_codes[nodes[n].symbol].code = BitsValue(PathBits(n))

\* ---- C6
\* s can be a string of a string set whose table is freq
InStringSet(s) == \A ch \in Chars : CountIn(s, ch) <= freq[ch]

\* decoding by repeatedly matching a code of the table (the longest that
\* matches) at the front of the remaining bits; -1 marks bits no code matches
RECURSIVE Decode(_)
Decode(bits) ==
  IF bits = <<>> THEN <<>>
  ELSE LET M == {s \in Coded : IsPrefix(BitsOf(char_codes[s]), bits)}
       IN IF M = {} THEN <<-1>>
          ELSE LET s == CHOOSE x \in M :
                          \A y \in M : char_codes[y].len <= char_codes[x].len
               IN <<s>> \o Decode(SubSeq(bits, char_codes[s].len + 1, Len(bits)))

\* C6: for every string of the input set, the bits print_command_bits writes
\* decode to exactly that string.
C6_RoundTrip ==
  (pc = "printed" /\ InStringSet(cmd)) => Decode(printed) = cmd

\* ---- C7
\* the strings "aab" and "abc" (a, b, c as the symbols 1, 2, 3)
Str_aab == <<1, 1, 2>>
Str_abc == <<1, 2, 3>>

RECURSIVE SumOverChars(_, _)
SumOverChars(s, S) ==
  IF S = {} THEN 0
  ELSE LET ch == CHOOSE x \in S : TRUE
       IN CountIn(s, ch) * char_codes[ch].len + SumOverChars(s, S \ {ch})

\* C7: encode_command reports the sum of the code lengths of the string's
\* characters, counting repeats, and ceil(bits / 8) bytes; for the string set
\* ["aab", "abc"] that is 4 bits for "aab" and 5 bits for "abc".
C7_EncodedLength ==
  pc = "print" =>
    /\ out_bits = SumOverChars(cmd, Chars)
    /\ ret = out_bits
    /\ 8 * out_bytes >= out_bits
    /\ 8 * (out_bytes - 1) < out_bits
    /\ freq = count_char_freq(<<Str_aab, Str_abc>>) =>
         /\ cmd = Str_aab => out_bits = 4
         /\ cmd = Str_abc => out_bits = 5

C7_Witness ==
  /\ pc = "print"
  /\ freq = count_char_freq(<<Str_aab, Str_abc>>)
  /\ cmd = Str_abc
  /\ out_bits = 5
  /\ out_bytes = 1

\* ---- C8
\* the node heap_pop has just returned, where one has
Popped == IF pc = "popb" THEN a ELSE b
JustPopped == pc \in {"popb", "pushp"}

\* C8 as stated: heap_pop returns the least node in the order on (frequency,
\* insertion sequence number); nodes are pushed in allocation order, so a
\* node's index in nodes is its insertion sequence number.
C8_FifoAmongTies ==
  JustPopped =>
    \A i \in 1 .. heap_size :
      \/ FreqOf(nodes, Popped) < FreqOf(nodes, heap[i])
      \/ FreqOf(nodes, Popped) = FreqOf(nodes, heap[i]) /\ Popped < heap[i]

\* C8 amended: heap_pop returns a node of least frequency among the queued
\* nodes (which of several such nodes is fixed by the heap array, and need not
\* be the one pushed earliest).
C8_PopsLeastFrequency ==
  JustPopped =>
    \A i \in 1 .. heap_size : FreqOf(nodes, Popped) <= FreqOf(nodes, heap[i])

\* a pop returned a node while an equally frequent node pushed earlier stayed
C8_Witness ==
  /\ JustPopped
  /\ \E i \in 1 .. heap_size :
       FreqOf(nodes, Popped) = FreqOf(nodes, heap[i]) /\ heap[i] < Popped

\* ---- C9
HeapOrdered ==
  \A i \in 1 .. (heap_size - 1) :
    FreqOf(nodes, heap[((i - 1) \div 2) + 1]) <= FreqOf(nodes, heap[i + 1])

\* C9: the heap array is in min-heap order on frequency after every push and
\* pop; the two nodes a merge iteration extracts are two of lowest frequency
\* among the queued nodes; the new internal node has them as children and
\* their frequencies' sum as its frequency.
C9_HeapOrderAndMerge ==
  /\ HeapOrdered
  /\ pc = "pushp" =>
       /\ FreqOf(nodes, a) <= FreqOf(nodes, b)
       /\ \A i \in 1 .. heap_size : FreqOf(nodes, b) <= FreqOf(nodes, heap[i])
  /\ \A n \in 1 .. Len(nodes) :
       nodes[n].symbol < 0 =>
         nodes[n].freq = FreqOf(nodes, nodes[n].left) + FreqOf(nodes, nodes[n].right)
  /\ (pc = "merge" /\ nodes[Len(nodes)].symbol < 0) =>
       nodes[Len(nodes)].left = a /\ nodes[Len(nodes)].right = b

C9_Witness ==
  /\ pc = "merge"
  /\ heap_size = 2
  /\ nodes[Len(nodes)].symbol < 0
  /\ FreqOf(nodes, a) < FreqOf(nodes, b)
  /\ nodes[Len(nodes)].freq = 3

\* C10: the traversal's stack index never passes the stack's capacity.
C10_StackInBounds == sp <= STACK_CAP
====
